---------------------------- MODULE Spec2Model ----------------------------
(***************************************************************************)
(* A model of scripts/analyze-service.py: the file collector               *)
(* (load_code_files), the response normalizer (_parse_ai_response and      *)
(* validate_and_correct_counts), the provider dispatch with its progress   *)
(* thread (_analyze_with_anthropic / _analyze_with_openai, show_progress)  *)
(* and the pipeline of main().                                             *)
(*                                                                         *)
(* Text is modelled at the level of characters: a string is a sequence of  *)
(* one-character strings, so that suffix matching, splitting, stripping    *)
(* and sorting are computed, not assumed.                                  *)
(***************************************************************************)
EXTENDS Integers, Sequences, FiniteSets, TLC

VARIABLES
    \* ---- the file system and the collector (load_code_files)
    service_path,   \* the resolved root directory, as its path segments
    tree,           \* the regular files under the root, as relative paths
    unreadable,     \* the files of the tree whose open()/read() raises
    walked,         \* code_files as appended, before the sort (line 95)
    code_files,     \* the list load_code_files returns
    prev_files,     \* what the previous run of load_code_files returned
    loads,          \* how many times load_code_files has run
    \* ---- the provider's response and the normalizer
    raw_pre,        \* the response text: what precedes the document,
    raw_body,       \*   the document (the report as text),
    raw_post,       \*   and what follows it
    raw_doc,        \* the report the document holds
    data,           \* analysis_data: the parsed report, as normalized
    raised,         \* the exception the dispatch caught, "" for none
    notes,          \* the warning and correction lines the normalizer printed
    validations,    \* how often validate_and_correct_counts has returned
    prev_data,      \* analysis_data before the latest validation
    corrections_made, \* the latest validation's corrections_made
    \* ---- the run: main(), the dispatch and the progress thread
    env,            \* os.environ
    path_exists,    \* whether SERVICE_PATH names an existing path
    sdk_installed,  \* whether the provider's client package imports
    config_json,    \* config.json: whether it is absent, and its document
    final_config,   \* main()'s final_config
    pc,             \* where main() is
    exit_code,      \* the process's exit status, -1 while it runs
    exit_at,        \* the stage that ended the run
    error_line,     \* what the line printed on ending the run shows
    stop_event,     \* threading.Event: set or not
    tpc,            \* where the show_progress thread is
    late_line,      \* the thread printed after the dispatch had returned
    provider_calls, \* requests issued to the provider
    json_written,   \* code-critique-data.json has been written
    html_written    \* code-critique-report.html has been written

collectorVars ==
    <<service_path, tree, unreadable, walked, code_files, prev_files, loads>>

responseVars == <<raw_pre, raw_body, raw_post, raw_doc>>

normVars == <<data, raised, notes, validations, prev_data, corrections_made>>

envVars == <<env, path_exists, sdk_installed, config_json>>

threadVars == <<stop_event, tpc, late_line>>

outVars == <<provider_calls, json_written, html_written>>

vars == <<collectorVars, responseVars, normVars, envVars, final_config, pc,
          exit_code, exit_at, error_line, threadVars, outVars>>

---------------------------------------------------------------------------
(* Characters and strings                                                  *)

\* The characters the model uses, in code point order (Python compares
\* strings by code point). "@" stands for the backtick, at the backtick's
\* place in the order.
Alphabet ==
    << "\n", " ", "-", ".", "/", "A", "G", "_", "@", "a", "b", "d", "e", "g", "i",
       "j", "l", "m", "n", "o", "p", "r", "s", "t", "u", "v", "x", "y",
       "{", "}" >>

Ord(c) == CHOOSE i \in 1..Len(Alphabet) : Alphabet[i] = c

\* Python's str.__lt__: lexicographic by code point, a proper prefix first.
RECURSIVE StrLess(_, _)
StrLess(s, t) ==
    IF t = <<>> THEN FALSE
    ELSE IF s = <<>> THEN TRUE
    ELSE IF Head(s) = Head(t) THEN StrLess(Tail(s), Tail(t))
    ELSE Ord(Head(s)) < Ord(Head(t))

EndsWith(s, suffix) ==
    /\ Len(s) >= Len(suffix)
    /\ SubSeq(s, Len(s) - Len(suffix) + 1, Len(s)) = suffix

\* os.sep.join(parts)
RECURSIVE JoinPath(_)
JoinPath(parts) ==
    IF parts = <<>> THEN <<>>
    ELSE IF Len(parts) = 1 THEN parts[1]
    ELSE parts[1] \o <<"/">> \o JoinPath(Tail(parts))

Range(seq) == {seq[i] : i \in 1..Len(seq)}

\* All the orders in which the members of a finite set can be enumerated.
Orders(S) ==
    {o \in [1..Cardinality(S) -> S] : \A i, j \in 1..Cardinality(S) :
                                          i # j => o[i] # o[j]}

---------------------------------------------------------------------------
(* File names of the modelled trees                                        *)

D_build == <<"b", "u", "i", "l", "d">>
D_target == <<"t", "a", "r", "g", "e", "t">>
D_node_modules ==
    <<"n", "o", "d", "e", "_", "m", "o", "d", "u", "l", "e", "s">>
D_git == <<".", "g", "i", "t">>
D_venv == <<"v", "e", "n", "v">>
D_dist == <<"d", "i", "s", "t">>
D_gradle == <<"g", "r", "a", "d", "l", "e">>
D_srv == <<"s", "r", "v">>
D_app == <<"a", "p", "p">>
D_a == <<"a">>
D_a_b == <<"a", "-", "b">>

F_A_java == <<"A", ".", "j", "a", "v", "a">>
F_G_java == <<"G", ".", "j", "a", "v", "a">>
F_b_txt == <<"b", ".", "t", "x", "t">>
F_m_py == <<"m", ".", "p", "y">>
F_x_js == <<"x", ".", "j", "s">>
F_t_go == <<"t", ".", "g", "o">>
F_target_ts == D_target \o <<".", "t", "s">>

\* The relative paths a modelled tree may hold.
Candidates ==
    { <<F_A_java>>,             \* A.java
      <<F_b_txt>>,              \* b.txt: no include pattern matches
      <<D_srv, F_m_py>>,        \* srv/m.py
      <<D_build, F_G_java>>,    \* build/G.java: under an excluded directory
      <<D_a, F_x_js>>,          \* a/x.js
      <<D_a_b, F_x_js>>,        \* a-b/x.js: sorts before a/x.js as a string
      <<D_srv, D_dist, F_t_go>>,\* srv/dist/t.go: excluded below the top
      <<F_target_ts>> }         \* target.ts: "target" is only part of a name

\* The resolved roots a run may be pointed at: /srv/app and /srv/build/app.
Roots == { <<D_srv, D_app>>, <<D_srv, D_build, D_app>> }

MaxTreeFiles == 4
MaxUnreadable == 1
MaxLoads == 2

---------------------------------------------------------------------------
(* load_code_files                                                         *)

\* '**/*.java', ...: any depth, any stem, the given suffix.
INCLUDE_PATTERNS ==
    << <<".", "j", "a", "v", "a">>, <<".", "p", "y">>, <<".", "j", "s">>,
       <<".", "t", "s">>, <<".", "g", "o">> >>

EXCLUDE_DIRS ==
    <<D_build, D_target, D_node_modules, D_git, D_venv, D_dist, D_gradle>>

\* service_path.glob(pattern): the files below the root whose name matches.
Glob(files, pattern) == {rel \in files : EndsWith(rel[Len(rel)], pattern)}

\* file_path.parts of a path the glob yields: the root's own segments, then
\* the segments below the root (glob yields service_path / relative, and
\* main() passes the resolved, absolute service_path). The anchor "/" is
\* left out: it is no excluded name.
Parts(root, rel) == root \o rel

\* any(excluded in file_path.parts for excluded in EXCLUDE_DIRS)
Excluded(root, rel) ==
    \E k \in 1..Len(EXCLUDE_DIRS) : EXCLUDE_DIRS[k] \in Range(Parts(root, rel))

\* The record appended for a file: its relative path as a string. (content
\* and size are carried along by the code and play no part in what is kept
\* or in the order.)
CodeFile(rel) == [path |-> JoinPath(rel)]

\* One pattern's pass of the loop at lines 77-93 over the files in the order
\* the glob yields them: excluded paths are skipped, a file whose read raises
\* is reported and skipped, the others are appended.
RECURSIVE AppendPass(_, _, _, _)
AppendPass(acc, order, root, bad) ==
    IF order = <<>> THEN acc
    ELSE LET rel == Head(order)
             keep == ~Excluded(root, rel) /\ rel \notin bad
         IN AppendPass(IF keep THEN Append(acc, CodeFile(rel)) ELSE acc,
                       Tail(order), root, bad)

\* list.sort(key=path): a stable insertion of x after the keys <= its own.
RECURSIVE InsertByPath(_, _)
InsertByPath(sorted, x) ==
    IF sorted = <<>> THEN <<x>>
    ELSE IF StrLess(x.path, Head(sorted).path)
         THEN <<x>> \o sorted
         ELSE <<Head(sorted)>> \o InsertByPath(Tail(sorted), x)

RECURSIVE SortFrom(_, _)
SortFrom(sorted, rest) ==
    IF rest = <<>> THEN sorted
    ELSE SortFrom(InsertByPath(sorted, Head(rest)), Tail(rest))

\* The list left as the walk built it: load_code_files without line 98.
NoSort(files) == files

\* code_files.sort(key=lambda x: x['path'])
SortByPath(files) == SortFrom(<<>>, files)

\* The lists the loop at lines 77-93 can build: the five globs in the order
\* of INCLUDE_PATTERNS, each yielding its files in an order the directory
\* walk decides.
WalkResults(root, files, bad) ==
    { AppendPass(AppendPass(AppendPass(AppendPass(AppendPass(<<>>,
          o1, root, bad), o2, root, bad), o3, root, bad), o4, root, bad),
          o5, root, bad) :
        o1 \in Orders(Glob(files, INCLUDE_PATTERNS[1])),
        o2 \in Orders(Glob(files, INCLUDE_PATTERNS[2])),
        o3 \in Orders(Glob(files, INCLUDE_PATTERNS[3])),
        o4 \in Orders(Glob(files, INCLUDE_PATTERNS[4])),
        o5 \in Orders(Glob(files, INCLUDE_PATTERNS[5])) }

\* load_code_files(service_path): the walk, then the sort.
LoadCodeFiles ==
    /\ \E w \in WalkResults(service_path, tree, unreadable) :
          /\ walked' = w
          /\ code_files' = SortByPath(w)
    /\ prev_files' = code_files
    /\ loads' = loads + 1
    /\ UNCHANGED <<service_path, tree, unreadable>>

---------------------------------------------------------------------------
(* JSON values                                                             *)

\* A JSON object is a function from its keys; a key that is absent is not in
\* the domain. A JSON string is a TLA+ string; NonStr stands for a value that
\* is no string (a number, null), on which str methods raise.
NonStr == "<non-string>"

Get(d, k, default) == IF k \in DOMAIN d THEN d[k] ELSE default

Put(d, k, v) == [x \in DOMAIN d \cup {k} |-> IF x = k THEN v ELSE d[x]]

Without(d, k) == [x \in DOMAIN d \ {k} |-> d[x]]

\* str.lower() on the strings reports of the model carry.
Lower(s) ==
    CASE s = "Critical" -> "critical"
      [] s = "Compliant" -> "compliant"
      [] s = "3 Violations" -> "3 violations"
      [] OTHER -> s

\* 'violation' in s
HasViolation(s) == s \in {"2 violations", "3 violations"}

---------------------------------------------------------------------------
(* validate_and_correct_counts                                             *)

\* In the model an issue is its 'severity', an item its 'assessment' and a
\* metric its 'value' ("" when the key is absent: the .get default); their
\* other fields are never read by the normalizer.

EXEMPT == "Functional Compliance"

\* Lines 258-266: the metric/issue cross-check, category by category. It
\* prints a warning for a metric that mentions violations in a category with
\* no issues, and raises at the first metric whose value is no string.
RECURSIVE MetricScan(_, _)
MetricScan(cats, warned) ==
    IF cats = <<>> THEN [raised |-> "", notes |-> warned]
    ELSE LET category == Head(cats)
             issue_count == Len(Get(category, "issues", <<>>))
             metrics == Get(category, "metrics", <<>>)
             bad == {i \in 1..Len(metrics) : metrics[i] = NonStr}
             first_bad == IF bad = {} THEN Len(metrics) + 1
                          ELSE CHOOSE i \in bad : \A j \in bad : i <= j
             warns == \E i \in 1..(first_bad - 1) :
                          HasViolation(Lower(metrics[i])) /\ issue_count = 0
             warned2 == IF warns THEN warned \cup {"metric shows violations but no issues found"}
                        ELSE warned
         IN IF bad # {} THEN [raised |-> "AttributeError", notes |-> warned2]
            ELSE MetricScan(Tail(cats), warned2)

\* Line 277: the categories the counting loop does not skip.
Counted(cats) ==
    SelectSeq(cats, LAMBDA category : Get(category, "name", "") # EXEMPT)

\* The number of strings of a list that, lowered, equal the target.
RECURSIVE CountEqual(_, _)
CountEqual(values, target) ==
    IF values = <<>> THEN 0
    ELSE (IF Lower(Head(values)) = target THEN 1 ELSE 0)
         + CountEqual(Tail(values), target)

\* Lines 275-293: the number of entries under `key` ('issues' or 'items'),
\* over the categories the loop does not skip, whose value lowered equals
\* the target.
RECURSIVE ActualCount(_, _, _)
ActualCount(cats, key, target) ==
    IF cats = <<>> THEN 0
    ELSE (IF Get(Head(cats), "name", "") = EXEMPT THEN 0
          ELSE CountEqual(Get(Head(cats), key, <<>>), target))
         + ActualCount(Tail(cats), key, target)

\* Lines 281 and 291: .lower() raises on a severity or an assessment that is
\* no string, in a category the loop does not skip.
CountingRaises(cats) ==
    \E i \in 1..Len(Counted(cats)) :
        \/ NonStr \in Range(Get(Counted(cats)[i], "issues", <<>>))
        \/ NonStr \in Range(Get(Counted(cats)[i], "items", <<>>))

\* A correction that writes the actual count whatever was reported.
CorrectAlways(summary, key, actual) == Put(summary, key, actual)

\* A correction that writes one more than the actual count.
CorrectOffByOne(summary, key, actual) ==
    IF Get(summary, key, 0) # actual THEN Put(summary, key, actual + 1)
    ELSE summary

\* Lines 296-322, one of the four: the reported value (0 when the key is
\* absent) is overwritten when it differs from the actual count.
Correct(summary, key, actual) ==
    IF Get(summary, key, 0) # actual THEN Put(summary, key, actual)
    ELSE summary

CountKeys == <<"critical_count", "warning_count", "info_count", "success_count">>

\* The actual count each summary key is compared with.
Actual(cats, key) ==
    CASE key = "critical_count" -> ActualCount(cats, "issues", "critical")
      [] key = "warning_count" -> ActualCount(cats, "issues", "warning")
      [] key = "info_count" -> ActualCount(cats, "issues", "info")
      [] key = "success_count" -> ActualCount(cats, "items", "compliant")

\* validate_and_correct_counts(data): what it raises ("" for nothing), the
\* data it leaves, the lines it printed, and corrections_made.
ValidateAndCorrectCounts(d) ==
    LET cats == Get(d, "categories", <<>>)
        scan == MetricScan(cats, {})
        failed(exc, printed) ==
            [raised |-> exc, data |-> d, notes |-> printed, corrections_made |-> FALSE]
    IN IF scan.raised # "" THEN failed(scan.raised, scan.notes)
       ELSE IF CountingRaises(cats) THEN failed("AttributeError", scan.notes)
       ELSE IF "summary" \notin DOMAIN d THEN failed("KeyError", scan.notes)
       ELSE LET s0 == d["summary"]
                s1 == Correct(s0, CountKeys[1], Actual(cats, CountKeys[1]))
                s2 == Correct(s1, CountKeys[2], Actual(cats, CountKeys[2]))
                s3 == Correct(s2, CountKeys[3], Actual(cats, CountKeys[3]))
                s4 == Correct(s3, CountKeys[4], Actual(cats, CountKeys[4]))
                mismatches ==
                    {CountKeys[i] : i \in {j \in 1..4 :
                        Get(s0, CountKeys[j], 0) # Actual(cats, CountKeys[j])}}
            IN [raised |-> "",
                data |-> Put(d, "summary", s4),
                notes |-> scan.notes \cup mismatches
                          \cup (IF mismatches # {} THEN {"Counts corrected"}
                                ELSE {"All counts accurate"}),
                corrections_made |-> mismatches # {}]

---------------------------------------------------------------------------
(* _parse_ai_response                                                      *)

FENCE == <<"@", "@", "@">>
FENCE_JSON == FENCE \o <<"j", "s", "o", "n">>

Whitespace == {" ", "\n"}

\* pat in t
RECURSIVE Contains(_, _)
Contains(t, pat) ==
    IF Len(t) < Len(pat) THEN FALSE
    ELSE IF SubSeq(t, 1, Len(pat)) = pat THEN TRUE
    ELSE Contains(Tail(t), pat)

\* t.split(pat)[0]: t up to the first occurrence of pat, all of t if none.
RECURSIVE Split0(_, _)
Split0(t, pat) ==
    IF Len(t) < Len(pat) THEN t
    ELSE IF SubSeq(t, 1, Len(pat)) = pat THEN <<>>
    ELSE <<Head(t)>> \o Split0(Tail(t), pat)

\* What follows the first occurrence of pat in t (pat occurs in t).
RECURSIVE AfterFirst(_, _)
AfterFirst(t, pat) ==
    IF SubSeq(t, 1, Len(pat)) = pat THEN SubSeq(t, Len(pat) + 1, Len(t))
    ELSE AfterFirst(Tail(t), pat)

\* t.split(pat)[1], for a pat that occurs in t.
Split1(t, pat) == Split0(AfterFirst(t, pat), pat)

\* t.strip()
RECURSIVE LStrip(_)
LStrip(t) ==
    IF t # <<>> /\ Head(t) \in Whitespace THEN LStrip(Tail(t)) ELSE t

RECURSIVE RStrip(_)
RStrip(t) ==
    IF t # <<>> /\ t[Len(t)] \in Whitespace
    THEN RStrip(SubSeq(t, 1, Len(t) - 1)) ELSE t

Strip(t) == RStrip(LStrip(t))

\* Lines 566-569.
StripFence(t) ==
    IF Contains(t, FENCE_JSON)
    THEN Strip(Split0(Split1(t, FENCE_JSON), FENCE))
    ELSE IF Contains(t, FENCE)
    THEN Strip(Split0(Split1(t, FENCE), FENCE))
    ELSE t

\* json.loads(t) over the documents of the model: an object written as its
\* braces around its textual content (any characters but braces; a fence
\* inside stands for one inside a string value such as a code_snippet), with
\* whitespace allowed around it. The object read is `doc` with that content
\* under the key "content"; any other text is a JSONDecodeError.
JsonLoads(t, doc) ==
    LET s == Strip(t)
        inner == SubSeq(s, 2, Len(s) - 1)
        well_formed == /\ Len(s) >= 2
                       /\ s[1] = "{"
                       /\ s[Len(s)] = "}"
                       /\ \A i \in 1..Len(inner) : inner[i] \notin {"{", "}"}
    IN IF well_formed THEN [ok |-> TRUE, value |-> Put(doc, "content", inner)]
       ELSE [ok |-> FALSE, value |-> <<>>]

\* The summary left as the model reported it: line 581 left out.
StampSummaryNot(d, n) == d

\* Line 581 (d has a summary).
StampSummary(d, n) == Put(d, "summary", Put(d["summary"], "files_scanned", n))

\* Lines 575-580 (d has a metadata object).
StampMetadata(d, n, config) ==
    Put(d, "metadata",
        Put(Put(Put(Put(Put(d["metadata"],
            "generated_at", "now IST"),
            "files_scanned", n),
            "ai_provider", config["provider"]),
            "ai_model", config["model"]),
            "confidence_threshold", config["confidence_threshold"]))

\* Lines 574-584: what _parse_ai_response does with what json.loads gave.
StampAndValidate(loaded, files, config) ==
    LET d0 == loaded.value
        failed(exc) ==
            [raised |-> exc, data |-> <<>>, notes |-> {}, corrections_made |-> FALSE]
    IN IF ~loaded.ok THEN failed("JSONDecodeError")
       ELSE IF "metadata" \notin DOMAIN d0 THEN failed("KeyError")
       ELSE IF "summary" \notin DOMAIN d0 THEN failed("KeyError")
       ELSE ValidateAndCorrectCounts(
                StampSummary(StampMetadata(d0, Len(files), config), Len(files)))

\* _parse_ai_response(response_text, code_files, config), for a response
\* whose document holds `doc`.
ParseAiResponse(text, doc, files, config) ==
    StampAndValidate(JsonLoads(StripFence(text), doc), files, config)

---------------------------------------------------------------------------
(* main(): configuration                                                   *)

\* int(s) for the values AI_CONFIDENCE_THRESHOLD takes in the model;
\* -1 stands for the ValueError int() raises on text that is no number.
IntOf(s) ==
    CASE s = "0" -> 0
      [] s = "85" -> 85
      [] s = "100" -> 100
      [] OTHER -> -1

\* load_config(): the configuration document, or the default when the file
\* is missing (absent: TRUE).
DefaultConfidence == 70

LoadConfig(document, absent) ==
    IF absent THEN [confidence_threshold |-> DefaultConfidence] ELSE document

\* Line 649: int(environ.get('AI_CONFIDENCE_THRESHOLD', '0'))
\*           or config.get('confidence_threshold', 70)
\* "unset" stands for the variable not being in the environment.
ConfidenceThreshold(environ, document) ==
    LET text == IF environ["AI_CONFIDENCE_THRESHOLD"] = "unset" THEN "0"
                ELSE environ["AI_CONFIDENCE_THRESHOLD"]
    IN IF IntOf(text) # 0 THEN IntOf(text)
       ELSE Get(document, "confidence_threshold", DefaultConfidence)

\* Lines 620-670: the first check that fails, "" when all pass. An
\* environment variable that is unset and one that is empty are both "".
ConfigError(environ, exists) ==
    IF environ["AI_PROVIDER"] = "" THEN "AI_PROVIDER"
    ELSE IF environ["AI_MODEL"] = "" THEN "AI_MODEL"
    ELSE IF IntOf(IF environ["AI_CONFIDENCE_THRESHOLD"] = "unset" THEN "0"
                  ELSE environ["AI_CONFIDENCE_THRESHOLD"]) = -1
         THEN "ValueError"
    ELSE IF environ["AI_API_KEY"] = "" THEN "AI_API_KEY"
    ELSE IF environ["SERVICE_PATH"] = "" THEN "SERVICE_PATH"
    ELSE IF ~exists THEN "path does not exist"
    ELSE ""

\* The line printed when the run is ended, as the values it shows. The
\* handler of the dispatch (line 386, 431) prints "Error: " and str(e), the
\* message of the exception it caught; the uncaught KeyError of the closing
\* summary is shown by the interpreter; every other exit prints the fixed
\* message of its check.
ErrorLine(stage) ==
    IF stage = "dispatch" THEN <<[shows |-> "exception", value |-> raised]>>
    ELSE IF stage = "summary"
    THEN <<[shows |-> "exception", value |-> "KeyError"]>>
    ELSE <<[shows |-> "message", value |-> stage]>>

Exit(stage) ==
    /\ pc' = "exit"
    /\ exit_code' = 1
    /\ exit_at' = stage
    /\ error_line' = ErrorLine(stage)

\* Lines 616-670 of main().
MainConfig ==
    /\ pc = "start"
    /\ IF ConfigError(env, path_exists) # ""
       THEN /\ Exit(ConfigError(env, path_exists))
            /\ UNCHANGED final_config
       ELSE /\ final_config' =
                 [provider |-> env["AI_PROVIDER"],
                  model |-> env["AI_MODEL"],
                  confidence_threshold |->
                      ConfidenceThreshold(env,
                          LoadConfig(config_json.document, config_json.absent))]
            /\ pc' = "load"
            /\ UNCHANGED <<exit_code, exit_at, error_line>>
    /\ UNCHANGED <<collectorVars, responseVars, normVars, envVars,
                   threadVars, outVars>>

\* main() without the check of line 691.
NoFilesFoundNever(files) == FALSE

\* Line 691: not code_files
NoFilesFound(files) == files = <<>>

\* Lines 689-693 of main().
MainLoadFiles ==
    /\ pc = "load"
    /\ LoadCodeFiles
    /\ IF NoFilesFound(code_files')
       THEN Exit("no code files")
       ELSE pc' = "route" /\ UNCHANGED <<exit_code, exit_at, error_line>>
    /\ UNCHANGED <<responseVars, normVars, envVars, final_config,
                   threadVars, outVars>>

---------------------------------------------------------------------------
(* analyze_with_ai and the two dispatch functions                          *)

PROVIDERS == {"anthropic", "openai"}

\* Lines 333-342, and the import at the head of the dispatch function
\* (lines 346-351, 391-396).
AnalyzeWithAi ==
    /\ pc = "route"
    /\ IF final_config["provider"] \notin PROVIDERS
       THEN Exit("unknown provider")
       ELSE IF ~sdk_installed
       THEN Exit("package not installed")
       ELSE pc' = "prepare" /\ UNCHANGED <<exit_code, exit_at, error_line>>
    /\ UNCHANGED <<collectorVars, responseVars, normVars, envVars,
                   final_config, threadVars, outVars>>

\* Lines 353-363 (398-408): the prompt material is prepared (the prompt file
\* of the installation is taken to be there) and the progress thread is
\* started.
StartProgress ==
    /\ pc = "prepare"
    /\ pc' = "call"
    /\ stop_event' = FALSE
    /\ tpc' = "banner"
    /\ UNCHANGED <<collectorVars, responseVars, normVars, envVars,
                   final_config, exit_code, exit_at,
                   error_line, late_line, outVars>>

\* The responses a provider call of a run may return: a report as plain
\* text or inside a json fence, or text that is no document.
GoodSummary ==
    [critical_count |-> 5, warning_count |-> 2, info_count |-> 0,
     success_count |-> 2, files_scanned |-> 9]

K_arch ==
    [name |-> "Code Architecture & Design",
     issues |-> <<"critical", "warning">>,
     items |-> <<"compliant">>,
     metrics |-> <<"ok">>]

RunDocs ==
    { [metadata |-> [files_scanned |-> 9], summary |-> GoodSummary,
       categories |-> <<K_arch, K_arch>>],
      [metadata |-> [files_scanned |-> 9], categories |-> <<K_arch>>],
      [metadata |-> [files_scanned |-> 9], summary |-> [files_scanned |-> 0],
       categories |-> <<>>] }

T_doc == <<"{", "a", "}">>
T_prose == <<"o">>

RunResponses ==
    {[pre |-> <<>>, body |-> T_doc, post |-> <<>>, doc |-> d] : d \in RunDocs}
    \cup
    {[pre |-> FENCE_JSON \o <<"\n">>, body |-> T_doc,
      post |-> <<"\n">> \o FENCE, doc |-> d] : d \in RunDocs}
    \cup
    {[pre |-> <<>>, body |-> T_prose, post |-> <<>>, doc |-> <<>>]}

\* A dispatch that sends the request a second time when the first raised.
ProviderCallRetried ==
    /\ pc = "call"
    /\ provider_calls' = provider_calls + 1
    /\ \/ /\ \E r \in RunResponses :
                /\ raw_pre' = r.pre
                /\ raw_body' = r.body
                /\ raw_post' = r.post
                /\ raw_doc' = r.doc
          /\ pc' = "stop"
          /\ UNCHANGED raised
       \/ /\ raised' = "APIError"
          /\ pc' = IF provider_calls = 0 THEN "call" ELSE "except"
          /\ UNCHANGED responseVars
    /\ UNCHANGED <<collectorVars, data, notes, validations, prev_data,
                   corrections_made, envVars, final_config, exit_code,
                   exit_at,
                   error_line, threadVars, json_written, html_written>>

\* Lines 366-375 (411-420): the prompt is built and the one request is sent;
\* it returns a response or raises (transport, authentication, timeout).
ProviderCall ==
    /\ pc = "call"
    /\ provider_calls' = provider_calls + 1
    /\ \/ /\ \E r \in RunResponses :
                /\ raw_pre' = r.pre
                /\ raw_body' = r.body
                /\ raw_post' = r.post
                /\ raw_doc' = r.doc
          /\ pc' = "stop"
          /\ UNCHANGED raised
       \/ /\ raised' = "APIError"
          /\ pc' = "except"
          /\ UNCHANGED responseVars
    /\ UNCHANGED <<collectorVars, data, notes, validations, prev_data,
                   corrections_made, envVars, final_config, exit_code,
                   exit_at,
                   error_line, threadVars, json_written, html_written>>

\* Line 377 (422): stop_event.set()
StopOnSuccess ==
    /\ pc = "stop"
    /\ stop_event' = TRUE
    /\ pc' = "join"
    /\ UNCHANGED <<collectorVars, responseVars, normVars, envVars,
                   final_config, exit_code, exit_at,
                   error_line, tpc, late_line, outVars>>

\* progress_thread.join(timeout=1) returns when the thread has ended, or
\* when its second is over: the thread is then inside time.sleep(1), having
\* entered it less than a second before.
JoinReturns(thread) == thread = "terminated" \/ thread = "sleep"

\* Line 378 (423): progress_thread.join(timeout=1)
JoinOnSuccess ==
    /\ pc = "join"
    /\ JoinReturns(tpc)
    /\ pc' = "parse"
    /\ UNCHANGED <<collectorVars, responseVars, normVars, envVars,
                   final_config, exit_code, exit_at,
                   error_line, threadVars, outVars>>

\* Lines 380-381 (425-426): _parse_ai_response on the response text; what it
\* raises is caught at line 383 (428).
ParseResponse ==
    /\ pc = "parse"
    /\ LET r == ParseAiResponse(raw_pre \o raw_body \o raw_post, raw_doc,
                                code_files, final_config)
           stamped == StampSummary(
                          StampMetadata(JsonLoads(StripFence(
                              raw_pre \o raw_body \o raw_post), raw_doc).value,
                              Len(code_files), final_config),
                          Len(code_files))
       IN /\ raised' = r.raised
          /\ notes' = r.notes
          /\ IF r.raised = ""
             THEN /\ data' = r.data
                  /\ prev_data' = stamped
                  /\ corrections_made' = r.corrections_made
                  /\ validations' = 1
                  /\ pc' = "save"
             ELSE /\ pc' = "except"
                  /\ UNCHANGED <<data, prev_data, corrections_made, validations>>
    /\ UNCHANGED <<collectorVars, responseVars, envVars, final_config,
                   exit_code, exit_at, error_line, threadVars, outVars>>

\* Line 384 (429): stop_event.set() in the handler
StopOnError ==
    /\ pc = "except"
    /\ stop_event' = TRUE
    /\ pc' = "except_join"
    /\ UNCHANGED <<collectorVars, responseVars, normVars, envVars,
                   final_config, exit_code, exit_at,
                   error_line, tpc, late_line, outVars>>

\* Lines 385-387 (430-432): the join, the error line and sys.exit(1)
ExitOnError ==
    /\ pc = "except_join"
    /\ JoinReturns(tpc)
    /\ Exit("dispatch")
    /\ UNCHANGED <<collectorVars, responseVars, normVars, envVars,
                   final_config, threadVars, outVars>>

---------------------------------------------------------------------------
(* show_progress: the progress thread                                      *)

\* The positions of main() at which the process is over.
Ended == {"exit", "done"}

\* The positions of main() after analyze_with_ai has returned.
AfterDispatch == {"save", "validate", "render", "summary"}

\* Whether a line has been printed after the dispatch returned, once the
\* thread has taken a step that prints (or does not).
Printed(prints) == late_line \/ (prints /\ pc \in AfterDispatch)

threadFrame ==
    <<collectorVars, responseVars, normVars, envVars, final_config, pc,
      exit_code, exit_at, error_line, stop_event, outVars>>

\* Lines 161-166: the two opening lines.
ThreadBanner ==
    /\ pc \notin Ended
    /\ tpc = "banner"
    /\ tpc' = "check"
    /\ late_line' = Printed(TRUE)
    /\ UNCHANGED threadFrame

\* Line 168: while not stop_event.is_set()
ThreadCheck ==
    /\ pc \notin Ended
    /\ tpc = "check"
    /\ tpc' = IF stop_event THEN "final" ELSE "body"
    /\ late_line' = Printed(FALSE)
    /\ UNCHANGED threadFrame

\* Lines 169-178: a status line when ten more seconds have passed.
ThreadBody ==
    /\ pc \notin Ended
    /\ tpc = "body"
    /\ tpc' = "sleep"
    /\ \E due \in BOOLEAN : late_line' = Printed(due)
    /\ UNCHANGED threadFrame

\* Line 180: time.sleep(1) is over.
ThreadWake ==
    /\ pc \notin Ended
    /\ tpc = "sleep"
    /\ tpc' = "check"
    /\ late_line' = Printed(FALSE)
    /\ UNCHANGED threadFrame

\* Lines 182-185: the closing line; the thread ends.
ThreadFinal ==
    /\ pc \notin Ended
    /\ tpc = "final"
    /\ tpc' = "terminated"
    /\ late_line' = Printed(TRUE)
    /\ UNCHANGED threadFrame

ShowProgress ==
    ThreadBanner \/ ThreadCheck \/ ThreadBody \/ ThreadWake \/ ThreadFinal

---------------------------------------------------------------------------
(* main(): the outputs                                                     *)

\* Lines 707-711: the JSON report is written.
SaveJson ==
    /\ pc = "save"
    /\ json_written' = TRUE
    /\ pc' = "validate"
    /\ UNCHANGED <<collectorVars, responseVars, normVars, envVars,
                   final_config, exit_code, exit_at, error_line, threadVars,
                   provider_calls, html_written>>

\* Lines 713-715: validate_json; a failure is printed and the run goes on.
ValidateJson ==
    /\ pc = "validate"
    /\ pc' = "render"
    /\ UNCHANGED <<collectorVars, responseVars, normVars, envVars,
                   final_config, exit_code, exit_at,
                   error_line, threadVars, outVars>>

\* Lines 717-718: render_html writes the HTML report.
RenderHtml ==
    /\ pc = "render"
    /\ html_written' = TRUE
    /\ pc' = "summary"
    /\ UNCHANGED <<collectorVars, responseVars, normVars, envVars,
                   final_config, exit_code, exit_at, error_line, threadVars,
                   provider_calls, json_written>>

\* Lines 720-750: the closing summary reads summary['critical_count'] and
\* summary['warning_count']; a missing key is an uncaught KeyError.
MainSummary ==
    /\ pc = "summary"
    /\ IF {"critical_count", "warning_count"} \subseteq DOMAIN data["summary"]
       THEN /\ pc' = "done" /\ exit_code' = 0 /\ exit_at' = "end"
            /\ UNCHANGED error_line
       ELSE Exit("summary")
    /\ UNCHANGED <<collectorVars, responseVars, normVars, envVars,
                   final_config, threadVars, outVars>>

---------------------------------------------------------------------------
(* A run of the pipeline                                                   *)

Idle ==
    /\ raw_pre = <<>> /\ raw_body = <<>> /\ raw_post = <<>> /\ raw_doc = <<>>
    /\ data = <<>> /\ prev_data = <<>>
    /\ raised = "" /\ notes = {}
    /\ validations = 0 /\ corrections_made = FALSE
    /\ final_config = <<>>
    /\ exit_code = -1 /\ exit_at = "" /\ error_line = <<>>
    /\ stop_event = FALSE /\ tpc = "none" /\ late_line = FALSE
    /\ provider_calls = 0 /\ json_written = FALSE /\ html_written = FALSE

RunTrees ==
    { {}, {<<F_b_txt>>}, {<<F_A_java>>, <<F_b_txt>>},
      {<<D_build, F_G_java>>}, {<<D_a, F_x_js>>, <<F_A_java>>} }

InitRun ==
    /\ env \in [AI_PROVIDER : {"", "anthropic", "openai", "gemini"},
                AI_MODEL : {"", "m"},
                AI_API_KEY : {"", "k"},
                SERVICE_PATH : {"", "/srv/app"},
                AI_CONFIDENCE_THRESHOLD : {"unset"}]
    /\ path_exists \in BOOLEAN
    /\ sdk_installed \in BOOLEAN
    /\ config_json = [absent |-> FALSE, document |-> [confidence_threshold |-> 60]]
    /\ service_path = <<D_srv, D_app>>
    /\ tree \in {t \in RunTrees : path_exists \/ t = {}}
    /\ unreadable = {}
    /\ walked = <<>> /\ code_files = <<>> /\ prev_files = <<>> /\ loads = 0
    /\ pc = "start"
    /\ Idle

NextRun ==
    \/ MainConfig
    \/ MainLoadFiles
    \/ AnalyzeWithAi
    \/ StartProgress
    \/ ProviderCall
    \/ StopOnSuccess
    \/ JoinOnSuccess
    \/ ParseResponse
    \/ StopOnError
    \/ ExitOnError
    \/ ShowProgress
    \/ SaveJson
    \/ ValidateJson
    \/ RenderHtml
    \/ MainSummary

Spec == InitRun /\ [][NextRun]_vars

\* A run in which the handler of the dispatch and the progress thread are
\* not starved: the interpreter schedules the main thread and the progress
\* thread in turn (time.sleep and join release it), and the handler's steps
\* and the thread's are code that ends, so each is taken once it can be.
SpecFair ==
    /\ Spec
    /\ WF_vars(StopOnError)
    /\ WF_vars(ExitOnError)
    /\ WF_vars(ShowProgress)

---------------------------------------------------------------------------
(* The collector on its own: any tree, any root, the collector run twice   *)

CollectorRun ==
    /\ loads < MaxLoads
    /\ LoadCodeFiles
    /\ UNCHANGED <<responseVars, normVars, envVars, final_config, pc,
                   exit_code, exit_at, error_line, threadVars, outVars>>

InitCollect ==
    /\ service_path \in Roots
    /\ tree \in {t \in SUBSET Candidates : Cardinality(t) <= MaxTreeFiles}
    /\ unreadable \in {u \in SUBSET tree : Cardinality(u) <= MaxUnreadable}
    /\ walked = <<>> /\ code_files = <<>> /\ prev_files = <<>> /\ loads = 0
    /\ env = <<>> /\ path_exists = TRUE /\ sdk_installed = TRUE
    /\ config_json = [absent |-> TRUE, document |-> <<>>]
    /\ pc = "load"
    /\ Idle

NextCollect == CollectorRun

SpecCollect == InitCollect /\ [][NextCollect]_vars

---------------------------------------------------------------------------
(* The normalizer on its own: any report, validated a second time          *)

MaxCats == 2
MaxReported == 1
MaxValidations == 2

K_errors ==
    [name |-> "Error Handling & Observability",
     issues |-> <<"Critical", "info", "minor">>,
     items |-> <<"Compliant", "warning">>,
     metrics |-> <<"2 violations">>]

K_exempt ==
    [name |-> EXEMPT,
     issues |-> <<"critical", "info">>,
     items |-> <<"compliant", "critical">>,
     metrics |-> <<>>]

\* A category with no name, no issues and no items.
K_bare == [metrics |-> <<"3 Violations">>]

\* A category with a metric whose value is a number.
K_number ==
    [name |-> "AI Quality Assurance",
     issues |-> <<"info">>,
     items |-> <<>>,
     metrics |-> <<NonStr>>]

CategoryPool == {K_arch, K_errors, K_exempt, K_bare, K_number}

CategoryLists ==
    UNION {[1..n -> CategoryPool] : n \in 0..MaxCats}

\* The summaries a model may report: any of the four counts present or not,
\* with any value up to MaxReported, and files_scanned claimed or not.
CountSummaries ==
    UNION {[K -> 0..MaxReported] : K \in SUBSET Range(CountKeys)}

Summaries ==
    CountSummaries
    \cup {Put(s, "files_scanned", MaxReported) :
             s \in [Range(CountKeys) -> {MaxReported}]}

Docs ==
    {[metadata |-> [files_scanned |-> MaxReported], summary |-> s,
      categories |-> c] : s \in Summaries, c \in CategoryLists}
    \cup {Without(d, "summary") : d \in RunDocs}
    \cup {Without(d, "metadata") : d \in RunDocs}
    \cup {Without(d, "categories") : d \in RunDocs}

\* The lists of collected files a normalizer run is given.
NormFiles ==
    { <<CodeFile(<<F_A_java>>)>>,
      <<CodeFile(<<F_A_java>>), CodeFile(<<D_a, F_x_js>>)>> }

\* The state in which the dispatch has received a response and joined the
\* thread: _parse_ai_response is about to be called.
Received ==
    /\ service_path = <<D_srv, D_app>>
    /\ tree = {} /\ unreadable = {}
    /\ walked = <<>> /\ prev_files = <<>> /\ loads = 1
    /\ code_files \in NormFiles
    /\ env = <<>> /\ path_exists = TRUE /\ sdk_installed = TRUE
    /\ config_json = [absent |-> TRUE, document |-> <<>>]
    /\ final_config = [provider |-> "anthropic", model |-> "m",
                       confidence_threshold |-> DefaultConfidence]
    /\ data = <<>> /\ prev_data = <<>>
    /\ raised = "" /\ notes = {}
    /\ validations = 0 /\ corrections_made = FALSE
    /\ exit_code = -1 /\ exit_at = "" /\ error_line = <<>>
    /\ stop_event = TRUE /\ tpc = "terminated" /\ late_line = FALSE
    /\ provider_calls = 1 /\ json_written = FALSE /\ html_written = FALSE
    /\ pc = "parse"

\* validate_and_correct_counts applied again to the data it returned.
ValidateAgain ==
    /\ pc = "save"
    /\ validations < MaxValidations
    /\ LET r == ValidateAndCorrectCounts(data)
       IN /\ prev_data' = data
          /\ data' = r.data
          /\ raised' = r.raised
          /\ notes' = r.notes
          /\ corrections_made' = r.corrections_made
          /\ validations' = validations + 1
    /\ UNCHANGED <<collectorVars, responseVars, envVars, final_config, pc,
                   exit_code, exit_at, error_line, threadVars, outVars>>

InitNorm ==
    /\ raw_pre = <<>> /\ raw_body = T_doc /\ raw_post = <<>>
    /\ raw_doc \in Docs
    /\ Received

NextNorm == ParseResponse \/ ValidateAgain

SpecNorm == InitNorm /\ [][NextNorm]_vars

---------------------------------------------------------------------------
(* Fence stripping on its own: any wrapping of any document                *)

\* What may precede the document: nothing, a fence line or a json fence
\* line, a newline, a line of prose and a json fence line.
Pres ==
    { <<>>, FENCE \o <<"\n">>, FENCE_JSON \o <<"\n">>, <<"\n">>,
      <<"o", "\n">> \o FENCE_JSON \o <<"\n">> }

\* What may follow it: nothing, a closing fence, a newline, a closing fence
\* and a line of prose.
Posts ==
    { <<>>, <<"\n">> \o FENCE, <<"\n">>, <<"\n">> \o FENCE \o <<"\n", "o">> }

\* The documents: with no backtick, with a fence inside a string value, with
\* a json fence inside one, and text that is no document.
Bodies ==
    { T_doc,
      <<"{">> \o FENCE \o <<"}">>,
      <<"{", "a">> \o FENCE_JSON \o <<"b", "}">>,
      <<"{", " ", "a", "\n", "}">>,
      T_prose }

InitParse ==
    /\ raw_pre \in Pres
    /\ raw_body \in Bodies
    /\ raw_post \in Posts
    /\ raw_doc \in RunDocs
    /\ Received

NextParse == ParseResponse

SpecParse == InitParse /\ [][NextParse]_vars

---------------------------------------------------------------------------
(* The configuration on its own: any environment, any config.json          *)

\* What AI_CONFIDENCE_THRESHOLD may hold: not set, numbers of the range
\* 0..100, the empty string and text that is no number.
ThresholdTexts == {"unset", "0", "85", "100", "", "high"}

\* config.json: missing; with a confidence_threshold; with one of zero;
\* without one.
ConfigFiles ==
    { [absent |-> TRUE, document |-> <<>>],
      [absent |-> FALSE, document |-> [confidence_threshold |-> 60]],
      [absent |-> FALSE, document |-> [confidence_threshold |-> 0]],
      [absent |-> FALSE, document |-> [max_tokens |-> 20000]] }

InitConfig ==
    /\ env \in [AI_PROVIDER : {"", "anthropic"},
                AI_MODEL : {"", "m"},
                AI_API_KEY : {"", "k"},
                SERVICE_PATH : {"", "/srv/app"},
                AI_CONFIDENCE_THRESHOLD : ThresholdTexts]
    /\ path_exists \in BOOLEAN
    /\ sdk_installed = TRUE
    /\ config_json \in ConfigFiles
    /\ service_path = <<D_srv, D_app>>
    /\ tree = {} /\ unreadable = {}
    /\ walked = <<>> /\ code_files = <<>> /\ prev_files = <<>> /\ loads = 0
    /\ pc = "start"
    /\ Idle

NextConfig == MainConfig

SpecConfig == InitConfig /\ [][NextConfig]_vars

---------------------------------------------------------------------------
(* Properties of the normalizer (under SpecNorm)                           *)

\* _parse_ai_response has returned a report (it did not raise).
Normalized == pc = "save" /\ validations >= 1

\* The number of entries under `key`, over the categories whose name is not
\* among `skipped`, whose value is exactly the target.
RECURSIVE ExactCount(_, _, _, _)
ExactCount(cats, key, target, skipped) ==
    IF cats = <<>> THEN 0
    ELSE (IF Get(Head(cats), "name", "") \notin skipped
          THEN Cardinality({i \in 1..Len(Get(Head(cats), key, <<>>)) :
                               Get(Head(cats), key, <<>>)[i] = target})
          ELSE 0)
         + ExactCount(Tail(cats), key, target, skipped)

HasValue(d, key, value) == key \in DOMAIN d /\ d[key] = value

\* C1: once the normalizer has returned, summary.critical_count,
\* summary.warning_count and summary.info_count each equal the number of
\* issues whose severity equals "critical", "warning" and "info", counted
\* over all categories but the exempt "Functional Compliance" one, whatever
\* the model reported or omitted in the summary.
C1_SeverityCountsMatchIssues ==
    Normalized =>
        LET cats == Get(data, "categories", <<>>)
        IN /\ HasValue(data["summary"], "critical_count",
                       ExactCount(cats, "issues", "critical", {EXEMPT}))
           /\ HasValue(data["summary"], "warning_count",
                       ExactCount(cats, "issues", "warning", {EXEMPT}))
           /\ HasValue(data["summary"], "info_count",
                       ExactCount(cats, "issues", "info", {EXEMPT}))

\* C2: once the normalizer has returned, summary.success_count equals the
\* number of items whose assessment equals "compliant", summed across all
\* categories, the exempt "Functional Compliance" category included.
C2_SuccessCountOverAllCategories ==
    Normalized =>
        HasValue(data["summary"], "success_count",
                 ExactCount(Get(data, "categories", <<>>), "items",
                            "compliant", {}))

\* C6: once _parse_ai_response has returned, metadata.files_scanned and
\* summary.files_scanned both equal len(code_files), whatever the raw
\* response carried in those fields.
C6_FilesScannedIsCollectedCount ==
    Normalized =>
        /\ HasValue(data["metadata"], "files_scanned", Len(code_files))
        /\ HasValue(data["summary"], "files_scanned", Len(code_files))

\* A report has been normalized whose summary claimed another number of
\* files than were collected.
C6_Witness ==
    /\ Normalized
    /\ "files_scanned" \in DOMAIN raw_doc["summary"]
    /\ raw_doc["summary"]["files_scanned"] # Len(code_files)
    /\ raw_doc["metadata"]["files_scanned"] # Len(code_files)

\* C8: count reconciliation is idempotent: a second application of
\* validate_and_correct_counts leaves the summary (and the rest of the
\* report) as the first left it, finds no mismatch and makes no correction.
C8_ReconciliationIdempotent ==
    (pc = "save" /\ validations >= 2) =>
        /\ raised = ""
        /\ data["summary"] = prev_data["summary"]
        /\ data = prev_data
        /\ ~corrections_made
        /\ notes \cap (Range(CountKeys) \cup {"Counts corrected"}) = {}

\* validate_and_correct_counts has been applied twice to a report whose
\* reported counts the first application had to correct.
C8_Witness ==
    /\ pc = "save"
    /\ validations = 2
    /\ \E k \in Range(CountKeys) \cap DOMAIN raw_doc["summary"] :
           raw_doc["summary"][k] # data["summary"][k]

\* The entries under `key` ('issues' or 'items') of the categories other
\* than the exempt one, as pairs of positions.
Entries(cats, key) ==
    UNION {{<<i, j>> : j \in 1..Len(Get(cats[i], key, <<>>))} :
              i \in {n \in 1..Len(cats) : Get(cats[n], "name", "") # EXEMPT}}

\* The count recomputed for a summary field: the entries whose severity
\* (assessment), whatever its case, is the field's.
Recomputed(cats, field) ==
    LET key == IF field = "success_count" THEN "items" ELSE "issues"
        target == CASE field = "critical_count" -> "critical"
                    [] field = "warning_count" -> "warning"
                    [] field = "info_count" -> "info"
                    [] field = "success_count" -> "compliant"
    IN Cardinality({e \in Entries(cats, key) :
                       Lower(Get(cats[e[1]], key, <<>>)[e[2]]) = target})

\* The field is not in both summaries with one value.
Changed(old, new, field) ==
    IF field \in DOMAIN old /\ field \in DOMAIN new
    THEN old[field] # new[field]
    ELSE (field \in DOMAIN old) # (field \in DOMAIN new)

\* C16: validate_and_correct_counts leaves everything but the summary as it
\* was (the categories with every issue, item and metric, and the metadata),
\* and in the summary files_scanned and every field other than the four
\* counts; of the four counts it writes exactly those whose reported value
\* (0 for a field the summary does not carry, as lines 296-299 read it)
\* differs from the recomputed one, writing the recomputed one; when all
\* four match, the report is left as it was.
C16_OnlyMismatchedCountsWritten ==
    (pc = "save" /\ validations >= 1) =>
        LET old == prev_data["summary"]
            new == data["summary"]
            cats == Get(prev_data, "categories", <<>>)
            counts == Range(CountKeys)
        IN /\ Without(data, "summary") = Without(prev_data, "summary")
           /\ \A field \in (DOMAIN old \cup DOMAIN new) \ counts :
                  ~Changed(old, new, field)
           /\ \A field \in counts :
                  /\ Changed(old, new, field)
                     <=> Get(old, field, 0) # Recomputed(cats, field)
                  /\ Changed(old, new, field)
                     => HasValue(new, field, Recomputed(cats, field))
           /\ (\A field \in counts :
                  Get(old, field, 0) = Recomputed(cats, field))
              => data = prev_data

\* A report with categories has been validated: one of its reported counts
\* was overwritten and another, which matched, was left.
C16_Witness ==
    /\ pc = "save"
    /\ validations = 1
    /\ Get(prev_data, "categories", <<>>) # <<>>
    /\ "files_scanned" \in DOMAIN prev_data["summary"]
    /\ \E f \in Range(CountKeys) :
           Changed(prev_data["summary"], data["summary"], f)
    /\ \E f \in Range(CountKeys) \cap DOMAIN prev_data["summary"] :
           ~Changed(prev_data["summary"], data["summary"], f)

\* json.loads has read the response as a report that carries its metadata
\* object.
ParsedAsData ==
    /\ JsonLoads(StripFence(raw_pre \o raw_body \o raw_post), raw_doc).ok
    /\ "metadata" \in DOMAIN raw_doc

\* C13: for every response that parses as structured data, also one with no
\* summary, with a count field missing or with a metric value that is no
\* string, count reconciliation and the metric/issue cross-check complete:
\* _parse_ai_response raises nothing and returns the report, so that the
\* run goes on to write its outputs instead of entering the handler that
\* ends it.
C13_ConsistencyCheckingNeverAborts ==
    (pc # "parse" /\ ParsedAsData) =>
        /\ raised = ""
        /\ pc = "save"
        /\ validations >= 1

\* Lines 540-542: the number of categories the prompt asks the model for,
\* with and without a test-scenario document.
ExpectedCategories(scenarios) == IF scenarios THEN 6 ELSE 5

\* The lines the normalizer prints about metrics and about the four counts
\* (lines 266 and 302-327).
MetricAndCountLines ==
    Range(CountKeys)
    \cup {"metric shows violations but no issues found",
          "Counts corrected", "All counts accurate"}

\* C14: when the number of top-level categories of the parsed report is not
\* the expected one (6 with a scenario document, 5 without), the normalizer
\* prints a warning about it, a line that is none of its lines about
\* metrics and counts, and returns the report with its categories as parsed.
C14_CategoryCountWarned ==
    Normalized =>
        \A scenarios \in BOOLEAN :
            Len(Get(data, "categories", <<>>)) # ExpectedCategories(scenarios)
            => /\ notes \ MetricAndCountLines # {}
               /\ raised = ""
               /\ Get(data, "categories", <<>>) = Get(raw_doc, "categories", <<>>)

---------------------------------------------------------------------------
(* Properties of fence stripping (under SpecParse)                         *)

\* The response is the document inside a pair of fence lines.
Fenced ==
    /\ raw_pre \in {FENCE \o <<"\n">>, FENCE_JSON \o <<"\n">>}
    /\ raw_post = <<"\n">> \o FENCE

\* The response is the document and nothing else.
Bare == raw_pre = <<>> /\ raw_post = <<>>

\* What _parse_ai_response gives for the document read as it stands.
Verbatim ==
    StampAndValidate(JsonLoads(raw_body, raw_doc), code_files, final_config)

\* C7: fence stripping is transparent: parsing a report text wrapped in a
\* pair of fence lines gives what parsing the text itself gives, and a
\* response with no surrounding fence is parsed as it stands, also when the
\* text holds a fence inside a string value.
C7_FenceStrippingTransparent ==
    (pc # "parse" /\ (Fenced \/ Bare)) =>
        /\ raised = Verbatim.raised
        /\ Verbatim.raised = "" => data = Verbatim.data

---------------------------------------------------------------------------
(* Properties of the collector (under SpecCollect)                         *)

Paths(files) == {files[i].path : i \in 1..Len(files)}

MatchesInclude(rel) ==
    \E k \in 1..Len(INCLUDE_PATTERNS) :
        EndsWith(rel[Len(rel)], INCLUDE_PATTERNS[k])

\* C4: a file under the root is in the result of load_code_files iff its
\* name matches an include pattern and no segment of its path relative to
\* the root is an excluded directory name.
C4_IncludedIffMatchedAndNotExcluded ==
    loads >= 1 =>
        \A rel \in tree :
            JoinPath(rel) \in Paths(code_files)
            <=> /\ MatchesInclude(rel)
                /\ \A k \in 1..Len(EXCLUDE_DIRS) :
                       EXCLUDE_DIRS[k] \notin Range(rel)

\* C5: the list load_code_files returns is strictly ascending by path (so
\* no path appears twice), and a second run over the unchanged tree returns
\* the same list, whatever order the walk yields the files in.
C5_ResultStrictlyAscending ==
    loads >= 1 =>
        /\ \A i \in 1..(Len(code_files) - 1) :
               StrLess(code_files[i].path, code_files[i + 1].path)
        /\ loads >= 2 => code_files = prev_files

\* Two runs have returned two or more files, the second after a walk that
\* yielded them in another order than the sorted one.
C5_Witness ==
    /\ loads = 2
    /\ Len(code_files) >= 2
    /\ walked # code_files

---------------------------------------------------------------------------
(* Properties of a run (under Spec)                                        *)

\* Control has left the dispatch function: it returned to main(), or the
\* run was ended from inside it or after it.
DispatchLeft ==
    \/ pc \in AfterDispatch
    \/ pc \in Ended /\ exit_at \in {"dispatch", "summary", "end"}

\* C3: on every path out of the dispatch function the stop event has been
\* set and the progress thread has ended before control leaves, so that the
\* thread prints nothing once a later stage of the pipeline has begun.
C3_ProgressEndedBeforeDispatchLeaves ==
    DispatchLeft =>
        /\ stop_event
        /\ tpc = "terminated"
        /\ ~late_line

\* C9: a run with an unrecognized provider is ended with a non-zero status
\* before any other work: no provider call, no walk of the source tree, no
\* output file.
C9_UnknownProviderBeforeAnyWork ==
    (pc = "exit" /\ exit_at = "unknown provider") =>
        /\ exit_code = 1
        /\ provider_calls = 0
        /\ loads = 0
        /\ ~json_written /\ ~html_written

\* The collector has run and returned no file.
ZeroFiles == loads >= 1 /\ code_files = <<>>

\* C10: when the target path does not exist, or the collector returns no
\* file, the run goes no further than the check that finds it, ends with a
\* non-zero status, issues no provider call and writes neither report.
C10_NoInputIsFatal ==
    (~path_exists \/ ZeroFiles) =>
        /\ pc \in {"start", "exit"}
        /\ ~path_exists => loads = 0
        /\ pc = "exit" => exit_code = 1
        /\ provider_calls = 0
        /\ ~json_written /\ ~html_written

\* A run over a tree that holds files, none of which is kept, has ended.
C10_Witness ==
    /\ pc = "exit"
    /\ exit_at = "no code files"
    /\ tree # {}
    /\ ZeroFiles

---------------------------------------------------------------------------
(* Properties of the dispatch (under SpecFair)                             *)

\* The handler of line 383 (428) has caught an exception of the provider
\* call or of the parsing of its response.
Failed == raised # ""

\* C11: a run issues at most one provider call and never a second one; when
\* the call fails, or what it returned is malformed, the failure is caught
\* once, neither report is written, and the run ends with status 1 at the
\* dispatch.
C11_OneCallNoRetry ==
    /\ [](provider_calls <= 1)
    /\ [](Failed =>
            /\ provider_calls = 1
            /\ pc \in {"except", "except_join", "exit"}
            /\ ~json_written /\ ~html_written
            /\ pc = "exit" => (exit_code = 1 /\ exit_at = "dispatch"))
    /\ (Failed ~> (pc = "exit" /\ exit_code = 1))

\* A run has ended in the handler after its one provider call raised.
C11_Witness ==
    /\ pc = "exit"
    /\ exit_at = "dispatch"
    /\ raised = "APIError"
    /\ provider_calls = 1

---------------------------------------------------------------------------
(* Properties of the configuration (under SpecConfig)                      *)

\* main() has built final_config and passed every check of lines 652-670.
Configured == pc = "load"

\* C12: the resolved confidence_threshold is the integer that
\* AI_CONFIDENCE_THRESHOLD holds whenever that is an integer of 0..100;
\* otherwise the confidence_threshold of config.json when the document has
\* one; otherwise 70.
C12_ThresholdPrecedence ==
    Configured =>
        LET text == env["AI_CONFIDENCE_THRESHOLD"]
            document == config_json.document
        IN final_config["confidence_threshold"] =
               IF text # "unset" /\ IntOf(text) \in 0..100 THEN IntOf(text)
               ELSE IF /\ ~config_json.absent
                       /\ "confidence_threshold" \in DOMAIN document
                    THEN document["confidence_threshold"]
               ELSE DefaultConfidence

---------------------------------------------------------------------------
(* Properties of a parse failure (under Spec)                              *)

\* The response text as the provider returned it.
RawResponse == raw_pre \o raw_body \o raw_post

\* A sequence that is the first characters of another, and not empty.
Truncation(part, text) ==
    /\ part # <<>>
    /\ Len(part) <= Len(text)
    /\ part = SubSeq(text, 1, Len(part))

\* C15: when the stripped response does not parse, the run ends in the
\* handler with a non-zero status, after its one provider call and with
\* neither report written, and the line it prints before ending shows the
\* raw response text, truncated.
C15_ParseFailureEchoesResponse ==
    raised = "JSONDecodeError" =>
        /\ pc \in {"except", "except_join", "exit"}
        /\ provider_calls = 1
        /\ ~json_written /\ ~html_written
        /\ pc = "exit" =>
               /\ exit_code = 1
               /\ \E i \in 1..Len(error_line) :
                      /\ error_line[i].shows = "response"
                      /\ Truncation(error_line[i].value, RawResponse)

=============================================================================
